---- MODULE Spec2Model ----
(***************************************************************************)
(* Model of sim/test-eptri.py: the cocotb test harness UsbTest that plays  *)
(* the USB host against the tri-endpoint device.                           *)
(*                                                                         *)
(* Two cooperatively scheduled coroutines exist per transaction: the       *)
(* calling test coroutine ("main") and the coroutine started by            *)
(* cocotb.fork ("drv", running host_send or host_recv).  A coroutine runs  *)
(* from one yield to the next without interruption; that segment is one    *)
(* action.  Time advances by rising edges of clk48 (action Tick); clk12 is *)
(* clk48 divided by four.  A TestFailure raised in either coroutine ends   *)
(* the whole test.  The device under test is the environment: it decides   *)
(* when usb_tx_en is asserted, what is on the lines while it transmits and *)
(* what the FIFO registers return.                                         *)
(***************************************************************************)
EXTENDS Integers, Sequences, FiniteSets, TLC

VARIABLES
    test,           \* which entry point is running
    addr,           \* USB address the scenario uses
    setup_data,     \* control_transfer_out: setup_data
    descriptor_data,\* control_transfer_out / transaction_data_in: payload
    sofs,           \* test_sof_is_ignored: how often each host_send_sof is made
    failure,        \* "none" or the TestFailure that ended the test
    phase,          \* clk48 edges since the last clk12 edge (0..3)
    \* ---- the calling coroutine
    pc,             \* where main is suspended
    wait,           \* "ready","run","clk12","join","done","dead"
    stage,          \* control_transfer_out: "setup","data","status","done"
    chunks,         \* the chunks grouper still has to yield
    chunk_i,        \* index of the current chunk (enumerate)
    datax,          \* transaction_data_*: PID of the current chunk
    expected_data,  \* expect_setup / expect_data: expected_data
    actual_data,    \* expect_setup / expect_data: actual_data
    loop_i,         \* expect_* loop counter i; send_data position
    v,              \* expect_*: the byte read from the data register
    \* ---- the forked coroutine
    drv_wait,       \* "idle","ready","run","clk48","done","dead"
    drv_ops,        \* what host_send / host_recv still has to do
    drv_seq,        \* _host_send_packet: symbols still to be driven
    drv_pc,         \* where the forked coroutine is suspended
    drv_txn,        \* the transaction the coroutine was forked for
    ex_i,           \* host_expect_packet: loop counter i
    bit_times,      \* host_expect_packet: bit_times
    result,         \* host_expect_packet: result
    warned,         \* host_expect_packet logged the timing warning
    \* ---- the device under test and the signals
    usb_d_p, usb_d_n, usb_tx_en,
    dev_delay,      \* ticks until the device asserts usb_tx_en (-1: never)
    dev_seq,        \* symbols the device still transmits
    dev_hang,       \* the device never releases usb_tx_en
    fifo,           \* bytes the setup / epout FIFO still holds
    epin,           \* bytes written to usb_epin_data since the last arm
    \* ---- record of what happened
    log,
    \* ---- grouper applied on its own
    g_pc, g_n, g_data, g_out

vars == <<test, addr, setup_data, descriptor_data, sofs, failure, phase,
          pc, wait, stage, chunks, chunk_i, datax, expected_data,
          actual_data, loop_i, v,
          drv_wait, drv_pc, drv_txn, drv_ops, drv_seq, ex_i, bit_times, result,
          warned,
          usb_d_p, usb_d_n, usb_tx_en, dev_delay, dev_seq, dev_hang,
          fifo, epin, log, g_pc, g_n, g_data, g_out>>

-----------------------------------------------------------------------------
(* Bounds of the model *)

\* longest payload handed to grouper on its own
MaxLen == 4
\* largest chunk size handed to grouper on its own
MaxChunk == 3
\* a descriptor payload has at most MaxChunks * chunk_size bytes
MaxChunks == 3
\* host_send_sof calls in a row, at most
MaxSof == 2

-----------------------------------------------------------------------------
(* grouper *)

Pad(k, pad) == [i \in 1..k |-> pad]

grouper_nopad(n, iterable, pad) ==
    [k \in 1..((Len(iterable) + n - 1) \div n) |->
        SubSeq(iterable, (k - 1) * n + 1,
               IF k * n <= Len(iterable) THEN k * n ELSE Len(iterable))]

RECURSIVE grouper(_, _, _)
grouper(n, iterable, pad) ==
    IF Len(iterable) = 0 THEN << >>
    ELSE IF Len(iterable) >= n
         THEN <<SubSeq(iterable, 1, n)>>
              \o grouper(n, SubSeq(iterable, n + 1, Len(iterable)), pad)
         ELSE <<iterable \o Pad(n - Len(iterable), pad)>>

chunk_size == 8

-----------------------------------------------------------------------------
(* Packet model and bit-level codec (valentyusb.usbcore.utils.packet,      *)
(* valentyusb.usbcore.endpoint): modelled from the specification.          *)

PidCode(pid) ==
    CASE pid = "OUT"   -> 1
      [] pid = "IN"    -> 9
      [] pid = "SOF"   -> 5
      [] pid = "SETUP" -> 13
      [] pid = "DATA0" -> 3
      [] pid = "DATA1" -> 11
      [] pid = "ACK"   -> 2
      [] pid = "NAK"   -> 10
      [] pid = "STALL" -> 14

EndpointOUT == 0
EndpointIN == 1
epaddr(n, dir) == n * 2 + dir
epnum(ep) == ep \div 2
epdir(ep) == ep % 2

token_packet(pid, a, e) ==
    [kind |-> "token", pid |-> pid, addr |-> a, endp |-> e, data |-> << >>]
data_packet(pid, d) ==
    [kind |-> "data", pid |-> pid, addr |-> 0, endp |-> 0, data |-> d]
handshake_packet(pid) ==
    [kind |-> "handshake", pid |-> pid, addr |-> 0, endp |-> 0, data |-> << >>]
sof_packet(time) ==
    [kind |-> "sof", pid |-> "SOF", addr |-> time, endp |-> 0, data |-> << >>]

\* the n low bits of v, least significant first
NBits(x, n) == [i \in 1..n |-> (x \div (2 ^ (i - 1))) % 2]

\* the bits of the bytes of d, each byte least significant bit first
BytesBits(d) ==
    [i \in 1..(8 * Len(d)) |->
        (d[((i - 1) \div 8) + 1] \div (2 ^ ((i - 1) % 8))) % 2]

\* x^5 + x^2 + 1 and x^16 + x^15 + x^2 + 1
Poly5 == 5
Poly16 == 32773

RECURSIVE XorInt(_, _, _)
XorInt(a, b, n) ==
    IF n = 0 THEN 0
    ELSE ((a + b) % 2) + 2 * XorInt(a \div 2, b \div 2, n - 1)

\* the shift register after the bits, most significant bit out first
RECURSIVE CrcStep(_, _, _, _)
CrcStep(bits, reg, poly, n) ==
    IF bits = << >> THEN reg
    ELSE IF ((reg \div (2 ^ (n - 1))) + Head(bits)) % 2 = 1
         THEN CrcStep(Tail(bits), XorInt((reg * 2) % (2 ^ n), poly, n), poly, n)
         ELSE CrcStep(Tail(bits), (reg * 2) % (2 ^ n), poly, n)

RECURSIVE CrcReg(_, _, _, _)
CrcReg(bits, reg, poly, n) ==
    IF Len(bits) <= 8 THEN CrcStep(bits, reg, poly, n)
    ELSE LET r == CrcStep(SubSeq(bits, 1, 8), reg, poly, n)
         IN  IF r >= 0 THEN CrcReg(SubSeq(bits, 9, Len(bits)), r, poly, n)
             ELSE r

\* the complemented residue, in the order it is transmitted
CrcBits(bits, poly, n) ==
    LET reg == CrcReg(bits, 2 ^ n - 1, poly, n)
    IN  [i \in 1..n |-> 1 - ((reg \div (2 ^ (n - i))) % 2)]

BitsByte(b) ==
    b[1] + 2 * b[2] + 4 * b[3] + 8 * b[4]
    + 16 * b[5] + 32 * b[6] + 64 * b[7] + 128 * b[8]

crc16(d) ==
    LET c == CrcBits(BytesBits(d), Poly16, 16)
    IN  <<BitsByte(SubSeq(c, 1, 8)), BitsByte(SubSeq(c, 9, 16))>>

packet_bits(p) ==
    LET pidbits == NBits(PidCode(p.pid) + 16 * (15 - PidCode(p.pid)), 8)
        field == IF p.kind = "token" THEN NBits(p.addr, 7) \o NBits(p.endp, 4)
                 ELSE NBits(p.addr, 11)
    IN  CASE p.kind \in {"token", "sof"} ->
                pidbits \o field \o CrcBits(field, Poly5, 5)
          [] p.kind = "data" ->
                pidbits \o BytesBits(p.data) \o CrcBits(BytesBits(p.data), Poly16, 16)
          [] OTHER -> pidbits

\* a 0 after every six consecutive 1 bits
SixOnes(bits) ==
    {i \in 6..Len(bits) : \A j \in (i - 5)..i : bits[j] = 1}
Least(S) == CHOOSE i \in S : \A j \in S : i <= j

RECURSIVE stuff(_)
stuff(bits) ==
    IF SixOnes(bits) = {} THEN bits
    ELSE LET i == Least(SixOnes(bits))
         IN  SubSeq(bits, 1, i) \o <<0>>
             \o stuff(SubSeq(bits, i + 1, Len(bits)))

\* a 0 toggles between J and K, a 1 holds, starting from idle (J); every
\* symbol lasts `cycles` ticks
nrzi(bits, cycles) ==
    [t \in 1..(Len(bits) * cycles) |->
        IF Cardinality({j \in 1..((t + cycles - 1) \div cycles) : bits[j] = 0}) % 2 = 0
        THEN "J" ELSE "K"]

Cycles == 4
SyncBits == <<0, 0, 0, 0, 0, 0, 0, 1>>

wrap_packet(p) ==
    nrzi(stuff(SyncBits \o packet_bits(p)), Cycles)
    \o Pad(Cycles, "_") \o Pad(Cycles, "_") \o Pad(Cycles, "J")

\* the pretty-printed form: one row per bit time
pp_packet(s) ==
    [k \in 1..((Len(s) + Cycles - 1) \div Cycles) |->
        SubSeq(s, (k - 1) * Cycles + 1,
               IF k * Cycles <= Len(s) THEN k * Cycles ELSE Len(s))]

-----------------------------------------------------------------------------
(* Shared definitions of the two coroutines *)

inputVars == <<test, addr, setup_data, descriptor_data, sofs>>
mainVars == <<pc, wait, stage, chunks, chunk_i, datax, expected_data,
              actual_data, loop_i, v>>
drvVars == <<drv_wait, drv_pc, drv_txn, drv_ops, drv_seq, ex_i, bit_times,
             result, warned>>
lineVars == <<usb_d_p, usb_d_n>>
devVars == <<usb_tx_en, dev_delay, dev_seq, dev_hang>>
gVars == <<g_pc, g_n, g_data, g_out>>

\* raise TestFailure ends the test: nothing runs once a failure is recorded
RunningAfterFailure == TRUE
Running == failure = "none"

NoPkt == [kind |-> "none", pid |-> "none", addr |-> 0, endp |-> 0,
          data |-> << >>]
NoTxn == [stage |-> "none", chunk |-> 0, tok |-> "none", data |-> << >>]
Txn(st, ch, tok, d) == [stage |-> st, chunk |-> ch, tok |-> tok, data |-> d]

\* one entry of the record of what happened
Ev(e, txn, p) ==
    [ev |-> e, stage |-> txn.stage, chunk |-> txn.chunk, pkt |-> p,
     drv |-> drv_wait]

Send(p) == [op |-> "send", pkt |-> p]
Expect(p) == [op |-> "expect", pkt |-> p]

host_send(token, data01, a, e, data) ==
    <<Send(token_packet(token, a, e)),
      Send(data_packet(data01, data)),
      Expect(handshake_packet("ACK"))>>

host_recv_ack_first(token, data01, a, e, data) ==
    <<Send(token_packet(token, a, e)),
      Send(handshake_packet("ACK")),
      Expect(data_packet(data01, data))>>

host_recv(token, data01, a, e, data) ==
    <<Send(token_packet(token, a, e)),
      Expect(data_packet(data01, data)),
      Send(handshake_packet("ACK"))>>

\* cocotb.fork: the new coroutine runs at once, up to its first yield
Fork(ops, txn) ==
    /\ drv_ops' = ops
    /\ drv_txn' = txn
    /\ drv_pc' = "begin"
    /\ drv_wait' = "run"
    /\ drv_seq' = << >>
    /\ ex_i' = 0
    /\ bit_times' = 0
    /\ result' = << >>
    /\ warned' = FALSE

\* the forked coroutine may run: it is running, or it was woken and the
\* caller is not running
DrvCanRun ==
    /\ Running
    /\ \/ drv_wait = "run"
       \/ drv_wait = "ready" /\ wait # "run"

MainCanRun ==
    /\ Running
    /\ wait \in {"ready", "run"}
    /\ drv_wait # "run"

-----------------------------------------------------------------------------
(* The device under test, as far as the harness observes it *)

Never == 0 - 1

\* ticks after which the device may assert usb_tx_en, per entry point
TxDelays ==
    IF test = "observe" THEN (0..100) \cup {Never}
    ELSE IF test = "sof_is_ignored" THEN {0, 2}
    ELSE {0, 51, Never}

Se1Packet == Pad(Cycles, "K") \o Pad(Cycles, "1") \o Pad(Cycles, "J")

\* the device answers with packet p and releases the bus
GoodResponse(p) == [seq |-> wrap_packet(p), hang |-> FALSE]

\* the FIFO a SETUP or OUT transaction fills
FifoReg(tok) == IF tok = "SETUP" THEN "setup" ELSE "epout"

\* packet p with both lines high during its second bit time
Se1Glitch(p) == [i \in 1..Len(wrap_packet(p)) |->
                    IF i = Cycles + 1 THEN "1" ELSE wrap_packet(p)[i]]

\* what the device may transmit when the host expects packet p
Responses(p) ==
    {GoodResponse(p)}
    \cup (IF test = "sof_is_ignored" THEN {}
          ELSE {[seq |-> wrap_packet(handshake_packet("NAK")), hang |-> FALSE],
                [seq |-> wrap_packet(p), hang |-> TRUE]})
    \cup (IF test = "observe"
          THEN {[seq |-> Se1Packet, hang |-> FALSE],
                [seq |-> Se1Glitch(p), hang |-> FALSE],
                [seq |-> Se1Glitch(p), hang |-> TRUE]}
          ELSE {})

NoResponse == [seq |-> << >>, hang |-> FALSE]

NoFifo == [reg |-> "none", bytes |-> << >>]

\* the device captured the data packet with payload d as it was sent
FifoGood(reg, d) == [reg |-> reg, bytes |-> d \o crc16(d)]

\* what the device may have captured of a data packet with payload d
FifoLoads(reg, d) ==
    {FifoGood(reg, d),
     [reg |-> reg, bytes |-> <<(IF d = << >> THEN 0 ELSE Head(d)) + 1>>
                             \o (IF d = << >> THEN << >> ELSE Tail(d))
                             \o crc16(d)],
     [reg |-> reg, bytes |-> d \o <<255 - crc16(d)[1], crc16(d)[2]>>],
     [reg |-> reg, bytes |-> <<(IF d = << >> THEN 0 ELSE Head(d)) + 1>>
                             \o (IF d = << >> THEN << >> ELSE Tail(d))
                             \o <<255 - crc16(d)[1], crc16(d)[2]>>],
     [reg |-> reg, bytes |-> <<1>>],
     NoFifo}

\* bit 0 of usb_setup_status / usb_epout_status
Status(reg) == IF fifo.reg = reg /\ fifo.bytes # << >> THEN 1 ELSE 0

-----------------------------------------------------------------------------
(* _host_send_packet *)

LineP(s) == IF s \in {"1", "-", "I", "J"} THEN 1 ELSE 0
LineN(s) == IF s \in {"1", "K"} THEN 1 ELSE 0

\* what wrap_packet returned; a "raw" packet stands for a codec whose output
\* is not that of wrap_packet
raw_packet(s) ==
    [kind |-> "raw", pid |-> "none", addr |-> 0, endp |-> 0, data |-> s]
Wrapped(p) == IF p.kind = "raw" THEN p.data ELSE wrap_packet(p)

\* self.assertEqual('J', packet[-1], ...)
EndsInJAlways(packet) == TRUE
EndsInJ(packet) == packet[Len(packet)] = "J"

host_send_packet ==
    /\ DrvCanRun
    /\ drv_pc = "begin"
    /\ drv_ops # << >>
    /\ Head(drv_ops).op = "send"
    /\ LET packet == Wrapped(Head(drv_ops).pkt)
       IN  IF ~EndsInJ(packet)
           THEN /\ failure' = "NotJ"
                /\ drv_wait' = "dead"
                /\ UNCHANGED <<drv_pc, drv_seq, lineVars, log>>
           ELSE /\ usb_d_p' = LineP(packet[1])
                /\ usb_d_n' = LineN(packet[1])
                /\ drv_seq' = Tail(packet)
                /\ drv_pc' = "drive"
                /\ drv_wait' = "clk48"
                /\ log' = Append(log, Ev("pkt", drv_txn, Head(drv_ops).pkt))
                /\ UNCHANGED failure
    /\ UNCHANGED <<inputVars, phase, mainVars, drv_txn, drv_ops, ex_i,
                   bit_times, result, warned, devVars, fifo, epin, gVars>>

\* the loop of _host_send_packet, resumed after yield RisingEdge(clk48)
host_send_symbol ==
    /\ DrvCanRun
    /\ drv_pc = "drive"
    /\ IF drv_seq = << >>
       THEN /\ drv_pc' = "begin"
            /\ drv_ops' = Tail(drv_ops)
            /\ drv_wait' = "run"
            /\ UNCHANGED <<drv_seq, lineVars>>
       ELSE /\ usb_d_p' = LineP(Head(drv_seq))
            /\ usb_d_n' = LineN(Head(drv_seq))
            /\ drv_seq' = Tail(drv_seq)
            /\ drv_wait' = "clk48"
            /\ UNCHANGED <<drv_pc, drv_ops>>
    /\ UNCHANGED <<inputVars, failure, phase, mainVars, drv_txn, ex_i,
                   bit_times, result, warned, devVars, fifo, epin, log, gVars>>

-----------------------------------------------------------------------------
(* host_expect_packet *)

WaitBound == 100
RecordBound == 512
\* bit_time_max = 12.5 and bit_time_acceptable = 7.5, doubled
bit_time_max_x2 == 25
bit_time_acceptable_x2 == 15

\* (bit_times / 4.0) > bit_time_max
TooLateSwapped(bt) == bt * 2 > bit_time_acceptable_x2 * 4
TooLate(bt) == bt * 2 > bit_time_max_x2 * 4
\* (bit_times / 4.0) > bit_time_acceptable
Slow(bt) == bt * 2 > bit_time_acceptable_x2 * 4

current ==
    CASE usb_d_p = 0 /\ usb_d_n = 0 -> "_"
      [] usb_d_p = 1 /\ usb_d_n = 1 -> "1"
      [] usb_d_p = 1 /\ usb_d_n = 0 -> "J"
      [] usb_d_p = 0 /\ usb_d_n = 1 -> "K"

\* assertSequenceEqual(expected, actual, msg) of the pretty-printed packets
SameLength(expected, actual) == Len(expected) = Len(actual)
SamePacket(expected, actual) == pp_packet(expected) = pp_packet(actual)

\* the loop "for i in range(0, 100)" goes on polling
WaitGoesOnPastBound(i, tx) == tx # 1
WaitGoesOn(i, tx) == i < WaitBound /\ tx # 1

\* tx = 0; bit_times = 0; first pass of the wait loop.  The device reacts to
\* the packet the host has just finished.
host_expect_packet ==
    /\ DrvCanRun
    /\ drv_pc = "begin"
    /\ drv_ops # << >>
    /\ Head(drv_ops).op = "expect"
    /\ \E d \in TxDelays :
       \E r \in (IF d = Never THEN {NoResponse} ELSE Responses(Head(drv_ops).pkt)) :
         /\ dev_delay' = d
         /\ dev_hang' = r.hang
         /\ IF d = 0
            THEN /\ usb_tx_en' = 1
                 /\ usb_d_p' = LineP(Head(r.seq))
                 /\ usb_d_n' = LineN(Head(r.seq))
                 /\ dev_seq' = Tail(r.seq)
            ELSE /\ dev_seq' = r.seq
                 /\ UNCHANGED <<usb_tx_en, lineVars>>
         /\ IF WaitGoesOn(0, usb_tx_en')
            THEN drv_pc' = "wait" /\ drv_wait' = "clk48"
            ELSE drv_pc' = "started" /\ drv_wait' = "run"
         /\ \E f \in (IF drv_txn.tok \notin {"SETUP", "OUT"} THEN {fifo}
                      ELSE IF /\ d = 0
                              /\ r = GoodResponse(Head(drv_ops).pkt)
                              /\ test # "sof_is_ignored"
                      THEN FifoLoads(FifoReg(drv_txn.tok), drv_txn.data)
                      ELSE {FifoGood(FifoReg(drv_txn.tok), drv_txn.data)}) :
              fifo' = f
    /\ ex_i' = 0
    /\ bit_times' = 0
    /\ result' = << >>
    /\ warned' = FALSE
    /\ UNCHANGED <<inputVars, failure, phase, mainVars, drv_txn, drv_ops,
                   drv_seq, epin, log, gVars>>

\* resumed after yield RisingEdge(clk48) in the wait loop
host_expect_wait ==
    /\ DrvCanRun
    /\ drv_pc = "wait"
    /\ bit_times' = bit_times + 1
    /\ ex_i' = ex_i + 1
    /\ IF WaitGoesOn(ex_i + 1, usb_tx_en)
       THEN drv_wait' = "clk48" /\ UNCHANGED drv_pc
       ELSE drv_wait' = "run" /\ drv_pc' = "started"
    /\ UNCHANGED <<inputVars, failure, phase, mainVars, drv_txn, drv_ops,
                   drv_seq, result, warned, lineVars, devVars, fifo, epin,
                   log, gVars>>

\* after the wait loop: tx is the signal handle, so "tx != 1" reads
\* usb_tx_en as it is now; then the turnaround check and the first sample
host_expect_started ==
    /\ DrvCanRun
    /\ drv_pc = "started"
    /\ IF usb_tx_en # 1
       THEN /\ failure' = "NoTransmission"
            /\ drv_wait' = "dead"
            /\ UNCHANGED <<drv_pc, ex_i, result, warned>>
       ELSE IF TooLate(bit_times)
       THEN /\ failure' = "TurnaroundTimeout"
            /\ drv_wait' = "dead"
            /\ UNCHANGED <<drv_pc, ex_i, result, warned>>
       ELSE /\ warned' = Slow(bit_times)
            /\ result' = <<current>>
            /\ ex_i' = 0
            /\ drv_pc' = "record"
            /\ drv_wait' = "clk48"
            /\ UNCHANGED failure
    /\ UNCHANGED <<inputVars, phase, mainVars, drv_txn, drv_ops, drv_seq,
                   bit_times, lineVars, devVars, fifo, epin, log, gVars>>

\* the record loop goes into iteration i: no break, and i in range(0, 512)
RecordGoesOnPastBound(i, tx) == tx = 1 /\ i < RecordBound + 1
RecordGoesOn(i, tx) == tx = 1 /\ i < RecordBound

\* the record loop resumed after yield RisingEdge(clk48); when it ends,
\* the "Packet didn't finish" check and the comparison
host_expect_record ==
    /\ DrvCanRun
    /\ drv_pc = "record"
    /\ IF RecordGoesOn(ex_i + 1, usb_tx_en)
       THEN /\ result' = Append(result, current)
            /\ ex_i' = ex_i + 1
            /\ drv_wait' = "clk48"
            /\ UNCHANGED <<failure, drv_pc, drv_ops, log>>
       ELSE IF usb_tx_en = 1
       THEN /\ failure' = "UnfinishedPacket"
            /\ drv_wait' = "dead"
            /\ UNCHANGED <<drv_pc, drv_ops, result, ex_i, log>>
       ELSE IF ~SamePacket(wrap_packet(Head(drv_ops).pkt), result)
       THEN /\ failure' = "UnexpectedPacket"
            /\ drv_wait' = "dead"
            /\ UNCHANGED <<drv_pc, drv_ops, result, ex_i, log>>
       ELSE /\ drv_pc' = "begin"
            /\ drv_ops' = Tail(drv_ops)
            /\ drv_wait' = "run"
            /\ log' = Append(log, Ev("matched", drv_txn, Head(drv_ops).pkt))
            /\ UNCHANGED <<failure, result, ex_i>>
    /\ UNCHANGED <<inputVars, phase, mainVars, drv_txn, drv_seq, bit_times,
                   warned, lineVars, devVars, fifo, epin, gVars>>

\* host_send / host_recv return
host_done ==
    /\ DrvCanRun
    /\ drv_pc = "begin"
    /\ drv_ops = << >>
    /\ drv_wait' = "done"
    /\ drv_pc' = "done"
    /\ log' = Append(log, Ev("drv_done", drv_txn, NoPkt))
    /\ UNCHANGED <<inputVars, failure, phase, mainVars, drv_txn, drv_ops,
                   drv_seq, ex_i, bit_times, result, warned, lineVars,
                   devVars, fifo, epin, gVars>>

-----------------------------------------------------------------------------
(* Time: one rising edge of clk48; every fourth one is a rising edge of    *)
(* clk12, on which a register access or RisingEdge(clk12) completes        *)

\* xmit.join() lets the caller go on
JoinReadyAlways == TRUE
JoinReady == drv_wait = "done"

Tick ==
    /\ Running
    /\ wait \notin {"ready", "run"}
    /\ drv_wait \notin {"ready", "run"}
    /\ ~(wait = "join" /\ JoinReady)
    /\ wait = "clk12" \/ drv_wait = "clk48"
    /\ phase' = (phase + 1) % 4
    /\ drv_wait' = IF drv_wait = "clk48" THEN "ready" ELSE drv_wait
    /\ wait' = IF wait = "clk12" /\ phase = 3 THEN "ready" ELSE wait
    /\ IF dev_delay > 0
       THEN /\ dev_delay' = dev_delay - 1
            /\ IF dev_delay = 1
               THEN /\ usb_tx_en' = 1
                    /\ usb_d_p' = LineP(Head(dev_seq))
                    /\ usb_d_n' = LineN(Head(dev_seq))
                    /\ dev_seq' = Tail(dev_seq)
               ELSE UNCHANGED <<usb_tx_en, lineVars, dev_seq>>
       ELSE IF usb_tx_en = 1 /\ dev_seq # << >>
       THEN /\ usb_d_p' = LineP(Head(dev_seq))
            /\ usb_d_n' = LineN(Head(dev_seq))
            /\ dev_seq' = Tail(dev_seq)
            /\ UNCHANGED <<usb_tx_en, dev_delay>>
       ELSE IF usb_tx_en = 1 /\ ~dev_hang
       THEN /\ usb_tx_en' = 0
            /\ usb_d_p' = 1
            /\ usb_d_n' = 0
            /\ UNCHANGED <<dev_delay, dev_seq>>
       ELSE UNCHANGED <<usb_tx_en, lineVars, dev_delay, dev_seq>>
    /\ UNCHANGED <<inputVars, failure, pc, stage, chunks, chunk_i, datax,
                   expected_data, actual_data, loop_i, v, drv_pc, drv_txn,
                   drv_ops, drv_seq, ex_i, bit_times, result, warned,
                   dev_hang, fifo, epin, log, gVars>>

-----------------------------------------------------------------------------
(* expect_setup / expect_data: the register side of a transaction.  Every  *)
(* register access and every RisingEdge(clk12) ends on a clk12 edge.       *)

PrimeBound == 128
SetupReadBound == 48
DataReadBound == 256

\* the register group the running expect_* polls
Reg == IF stage = "setup" THEN "setup" ELSE "epout"
ReadBoundOfData == DataReadBound
ReadBound == IF stage = "setup" THEN SetupReadBound ELSE DataReadBound
MainTxn(tok, d) == Txn(stage, chunk_i, tok, d)

\* actual_data = []; first read of the status register is issued
expect_begin ==
    /\ MainCanRun
    /\ pc = "expect_begin"
    /\ actual_data' = << >>
    /\ loop_i' = 0
    /\ pc' = "prime_read"
    /\ wait' = "clk12"
    /\ UNCHANGED <<inputVars, failure, phase, stage, chunks, chunk_i, datax,
                   expected_data, v, drvVars, lineVars, devVars, fifo, epin,
                   log, gVars>>

\* priming loop: the status read has returned
expect_prime_poll ==
    /\ MainCanRun
    /\ pc = "prime_read"
    /\ IF Status(Reg) = 1
       THEN pc' = "read_status" /\ loop_i' = 0
       ELSE pc' = "prime_edge" /\ UNCHANGED loop_i
    /\ wait' = "clk12"
    /\ UNCHANGED <<inputVars, failure, phase, stage, chunks, chunk_i, datax,
                   expected_data, actual_data, v, drvVars, lineVars, devVars,
                   fifo, epin, log, gVars>>

\* priming loop: RisingEdge(clk12) has passed
expect_prime_edge ==
    /\ MainCanRun
    /\ pc = "prime_edge"
    /\ IF loop_i + 1 < PrimeBound
       THEN pc' = "prime_read" /\ loop_i' = loop_i + 1
       ELSE pc' = "read_status" /\ loop_i' = 0
    /\ wait' = "clk12"
    /\ UNCHANGED <<inputVars, failure, phase, stage, chunks, chunk_i, datax,
                   expected_data, actual_data, v, drvVars, lineVars, devVars,
                   fifo, epin, log, gVars>>

\* read loop: the status read has returned
expect_read_status ==
    /\ MainCanRun
    /\ pc = "read_status"
    /\ IF Status(Reg) = 1
       THEN pc' = "read_data" /\ wait' = "clk12"
       ELSE pc' = "check" /\ wait' = "run"
    /\ UNCHANGED <<inputVars, failure, phase, stage, chunks, chunk_i, datax,
                   expected_data, actual_data, loop_i, v, drvVars, lineVars,
                   devVars, fifo, epin, log, gVars>>

\* read loop: the data read has returned; the ctrl write is issued
expect_read_data ==
    /\ MainCanRun
    /\ pc = "read_data"
    /\ v' = IF fifo.bytes = << >> THEN 0 ELSE Head(fifo.bytes)
    /\ pc' = "write_ctrl"
    /\ wait' = "clk12"
    /\ UNCHANGED <<inputVars, failure, phase, stage, chunks, chunk_i, datax,
                   expected_data, actual_data, loop_i, drvVars, lineVars,
                   devVars, fifo, epin, log, gVars>>

\* read loop: the ctrl write is done (the device advances its FIFO)
expect_write_ctrl ==
    /\ MainCanRun
    /\ pc = "write_ctrl"
    /\ fifo' = [fifo EXCEPT !.bytes = IF @ = << >> THEN @ ELSE Tail(@)]
    /\ actual_data' = Append(actual_data, v)
    /\ pc' = "read_edge"
    /\ wait' = "clk12"
    /\ UNCHANGED <<inputVars, failure, phase, stage, chunks, chunk_i, datax,
                   expected_data, loop_i, v, drvVars, lineVars, devVars,
                   epin, log, gVars>>

\* read loop: RisingEdge(clk12) has passed
expect_read_edge ==
    /\ MainCanRun
    /\ pc = "read_edge"
    /\ IF loop_i + 1 < ReadBound
       THEN pc' = "read_status" /\ loop_i' = loop_i + 1 /\ wait' = "clk12"
       ELSE pc' = "check" /\ wait' = "run" /\ UNCHANGED loop_i
    /\ UNCHANGED <<inputVars, failure, phase, stage, chunks, chunk_i, datax,
                   expected_data, actual_data, v, drvVars, lineVars, devVars,
                   fifo, epin, log, gVars>>

\* if len(actual_data) < 2
TooShortNever(n) == FALSE
TooShort(n) == n < 2

\* the length check, the split and the two assertSequenceEqual
expect_check ==
    /\ MainCanRun
    /\ pc = "check"
    /\ LET n == Len(actual_data)
       IN  IF TooShort(n)
           THEN failure' = "ShortFrame" /\ wait' = "dead"
                /\ UNCHANGED <<pc, log>>
           ELSE IF expected_data # SubSeq(actual_data, 1, n - 2)
           THEN failure' = "PayloadMismatch" /\ wait' = "dead"
                /\ UNCHANGED <<pc, log>>
           ELSE IF crc16(expected_data) # SubSeq(actual_data, n - 1, n)
           THEN failure' = "CrcMismatch" /\ wait' = "dead"
                /\ UNCHANGED <<pc, log>>
           ELSE /\ pc' = "join"
                /\ wait' = "run"
                /\ log' = Append(log, Ev("expected", MainTxn("none", << >>), NoPkt))
                /\ UNCHANGED failure
    /\ UNCHANGED <<inputVars, phase, stage, chunks, chunk_i, datax,
                   expected_data, actual_data, loop_i, v, drvVars, lineVars,
                   devVars, fifo, epin, gVars>>

-----------------------------------------------------------------------------
(* The transactions and control_transfer_out *)

\* control_transfer_out: the stage that follows a completed stage
StageAfterSwapped(st) ==
    CASE st = "setup" -> "status" [] st = "status" -> "data"
      [] st = "data" -> "done" [] OTHER -> "done"
StageAfter(st) ==
    CASE st = "setup" -> "data" [] st = "data" -> "status"
      [] st = "status" -> "done" [] OTHER -> "done"

\* where the caller goes on when a stage of the running test has returned
StagePc(st) ==
    CASE st = "data" -> "transaction_data_out"
      [] st = "status" -> "transaction_status_in"
      [] OTHER -> "done"

\* the PID update that ends a chunk iteration
toggle_stuck(d) == d
toggle(d) == IF d = "DATA0" THEN "DATA1" ELSE "DATA0"

\* datax = PID.DATA0 at the head of transaction_data_out / transaction_data_in
FirstDataPid == "DATA0"

epaddr_out == epaddr(0, EndpointOUT)
epaddr_in == epaddr(0, EndpointIN)

\* the caller after cocotb.fork: the next statement is yield expect_setup /
\* expect_data, without a trigger in between
CallerAfterEdge == "clk12"
CallerAfterFork == "run"

\* control_transfer_out up to transaction_setup's fork
control_transfer_out ==
    /\ MainCanRun
    /\ pc = "start"
    /\ test = "control_transfer_out"
    /\ stage' = "setup"
    /\ Fork(host_send("SETUP", "DATA0", addr, 0, setup_data),
            Txn("setup", 0, "SETUP", setup_data))
    /\ expected_data' = setup_data
    /\ pc' = "expect_begin"
    /\ wait' = CallerAfterFork
    /\ log' = Append(log, Ev("fork", Txn("setup", 0, "SETUP", setup_data), NoPkt))
    /\ UNCHANGED <<inputVars, failure, phase, chunks, chunk_i, datax,
                   actual_data, loop_i, v, lineVars, devVars, fifo, epin,
                   gVars>>

\* yield xmit.join(), and what follows it in the caller
join ==
    /\ Running
    /\ pc = "join"
    /\ drv_wait # "run"
    /\ IF wait = "join" THEN JoinReady ELSE wait \in {"ready", "run"}
    /\ IF ~JoinReady
       THEN /\ wait' = "join"
            /\ UNCHANGED <<pc, stage, log>>
       ELSE /\ log' = Append(log, Ev("return", drv_txn, NoPkt))
            /\ IF test = "control_transfer_out" /\ stage # "data"
               THEN /\ pc' = StagePc(StageAfter(stage))
                    /\ stage' = IF StageAfter(stage) = "done" THEN "done" ELSE stage
                    /\ wait' = IF StageAfter(stage) = "done" THEN "done" ELSE "run"
               ELSE IF test = "sof_is_ignored"
               THEN /\ pc' = IF stage = "setup" THEN "set_response" ELSE "done"
                    /\ stage' = IF stage = "setup" THEN stage ELSE "done"
                    /\ wait' = IF stage = "setup" THEN "run" ELSE "done"
               ELSE /\ pc' = "next_chunk"
                    /\ wait' = "run"
                    /\ UNCHANGED stage
    /\ UNCHANGED <<inputVars, failure, phase, chunks, chunk_i, datax,
                   expected_data, actual_data, loop_i, v, drvVars, lineVars,
                   devVars, fifo, epin, gVars>>

\* transaction_data_out up to the write of usb_epin_epno
transaction_data_out ==
    /\ MainCanRun
    /\ pc = "transaction_data_out"
    /\ stage' = "data"
    /\ datax' = FirstDataPid
    /\ chunks' = grouper(chunk_size, descriptor_data, 0)
    /\ chunk_i' = 0
    /\ pc' = "w_epin_epno"
    /\ wait' = "clk12"
    /\ UNCHANGED <<inputVars, failure, phase, expected_data, actual_data,
                   loop_i, v, drvVars, lineVars, devVars, fifo, epin, log,
                   gVars>>

\* the write of usb_epin_epno is done: the for loop is entered
data_out_armed ==
    /\ MainCanRun
    /\ pc = "w_epin_epno"
    /\ pc' = "loop"
    /\ wait' = "run"
    /\ UNCHANGED <<inputVars, failure, phase, stage, chunks, chunk_i, datax,
                   expected_data, actual_data, loop_i, v, drvVars, lineVars,
                   devVars, fifo, epin, log, gVars>>

\* head of the for loop of transaction_data_out: the next chunk, or the
\* return into control_transfer_out
data_out_loop ==
    /\ MainCanRun
    /\ pc = "loop"
    /\ test = "control_transfer_out"
    /\ IF chunks = << >>
       THEN pc' = StagePc(StageAfter(stage)) /\ wait' = "run"
       ELSE pc' = "w_epout_ctrl" /\ wait' = "clk12"
    /\ UNCHANGED <<inputVars, failure, phase, stage, chunks, chunk_i, datax,
                   expected_data, actual_data, loop_i, v, drvVars, lineVars,
                   devVars, fifo, epin, log, gVars>>

\* the write of usb_epout_ctrl is done: fork host_send for the chunk
data_out_fork ==
    /\ MainCanRun
    /\ pc = "w_epout_ctrl"
    /\ Fork(host_send("OUT", datax, addr, epnum(epaddr_out), Head(chunks)),
            MainTxn("OUT", Head(chunks)))
    /\ expected_data' = Head(chunks)
    /\ pc' = "expect_begin"
    /\ wait' = CallerAfterFork
    /\ log' = Append(log, Ev("fork", MainTxn("OUT", Head(chunks)), NoPkt))
    /\ UNCHANGED <<inputVars, failure, phase, stage, chunks, chunk_i, datax,
                   actual_data, loop_i, v, lineVars, devVars, fifo, epin,
                   gVars>>

\* the end of a chunk iteration: the PID toggles
next_chunk ==
    /\ MainCanRun
    /\ pc = "next_chunk"
    /\ datax' = toggle(datax)
    /\ chunks' = Tail(chunks)
    /\ chunk_i' = chunk_i + 1
    /\ pc' = "loop"
    /\ wait' = "run"
    /\ UNCHANGED <<inputVars, failure, phase, stage, expected_data,
                   actual_data, loop_i, v, drvVars, lineVars, devVars, fifo,
                   epin, log, gVars>>

\* the arguments of the status stage's host_send
StatusSendData0(a, ep) == host_send("IN", "DATA0", a, epnum(ep), << >>)
StatusSend(a, ep) == host_send("IN", "DATA1", a, epnum(ep), << >>)

transaction_status_in ==
    /\ MainCanRun
    /\ pc = "transaction_status_in"
    /\ stage' = "status"
    /\ Fork(StatusSend(addr, epaddr_in), Txn("status", 0, "IN", << >>))
    /\ pc' = "join"
    /\ wait' = "run"
    /\ log' = Append(log, Ev("fork", Txn("status", 0, "IN", << >>), NoPkt))
    /\ UNCHANGED <<inputVars, failure, phase, chunks, chunk_i, datax,
                   expected_data, actual_data, loop_i, v, lineVars, devVars,
                   fifo, epin, gVars>>

\* transaction_data_in up to the for loop
transaction_data_in ==
    /\ MainCanRun
    /\ pc = "start"
    /\ test = "transaction_data_in"
    /\ stage' = "data"
    /\ datax' = FirstDataPid
    /\ chunks' = grouper(chunk_size, descriptor_data, 0)
    /\ chunk_i' = 0
    /\ pc' = "loop"
    /\ wait' = "run"
    /\ UNCHANGED <<inputVars, failure, phase, expected_data, actual_data,
                   loop_i, v, drvVars, lineVars, devVars, fifo, epin, log,
                   gVars>>

\* head of the for loop of transaction_data_in: fork host_recv for the
\* chunk, or return
data_in_loop ==
    /\ MainCanRun
    /\ pc = "loop"
    /\ test = "transaction_data_in"
    /\ IF chunks = << >>
       THEN /\ pc' = "done"
            /\ wait' = "done"
            /\ stage' = "done"
            /\ UNCHANGED <<drvVars, log>>
       ELSE /\ Fork(host_recv("IN", datax, addr, epnum(epaddr_in), Head(chunks)),
                    MainTxn("IN", Head(chunks)))
            /\ pc' = "send_data"
            /\ wait' = "run"
            /\ log' = Append(log, Ev("fork", MainTxn("IN", Head(chunks)), NoPkt))
            /\ UNCHANGED stage
    /\ UNCHANGED <<inputVars, failure, phase, chunks, chunk_i, datax,
                   expected_data, actual_data, loop_i, v, lineVars, devVars,
                   fifo, epin, gVars>>

\* send_data(datax, epnum, data): the first register write is issued
send_data ==
    /\ MainCanRun
    /\ pc = "send_data"
    /\ loop_i' = 1
    /\ pc' = IF descriptor_data = << >> THEN "w_epin_arm" ELSE "w_epin_data"
    /\ wait' = "clk12"
    /\ UNCHANGED <<inputVars, failure, phase, stage, chunks, chunk_i, datax,
                   expected_data, actual_data, v, drvVars, lineVars, devVars,
                   fifo, epin, log, gVars>>

\* a write of usb_epin_data is done
send_data_byte ==
    /\ MainCanRun
    /\ pc = "w_epin_data"
    /\ epin' = Append(epin, descriptor_data[loop_i])
    /\ IF loop_i < Len(descriptor_data)
       THEN loop_i' = loop_i + 1 /\ UNCHANGED pc
       ELSE pc' = "w_epin_arm" /\ UNCHANGED loop_i
    /\ wait' = "clk12"
    /\ UNCHANGED <<inputVars, failure, phase, stage, chunks, chunk_i, datax,
                   expected_data, actual_data, v, drvVars, lineVars, devVars,
                   fifo, log, gVars>>

\* the write of usb_epin_epno is done: the queued bytes are armed
send_data_arm ==
    /\ MainCanRun
    /\ pc = "w_epin_arm"
    /\ log' = Append(log, Ev("arm", MainTxn("IN", epin), data_packet(datax, epin)))
    /\ epin' = << >>
    /\ pc' = "join"
    /\ wait' = "run"
    /\ UNCHANGED <<inputVars, failure, phase, stage, chunks, chunk_i, datax,
                   expected_data, actual_data, loop_i, v, drvVars, lineVars,
                   devVars, fifo, gVars>>

-----------------------------------------------------------------------------
(* test_sof_is_ignored, with each of its host_send_sof calls made any      *)
(* number of times                                                         *)

SofAddr == 32
SofData == <<0, 1, 8, 0, 4, 3, 2, 1>>

\* the operations ops, k times over
Rep(k, ops) == [i \in 1..(k * Len(ops)) |-> ops[((i - 1) % Len(ops)) + 1]]

host_send_sof_acked(time) ==
    <<Send(sof_packet(time)), Expect(handshake_packet("ACK"))>>
host_send_sof(time) == <<Send(sof_packet(time))>>

\* send_setup_and_sof
send_setup_and_sof(n) ==
    Rep(n[1], host_send_sof(2))
    \o <<Send(token_packet("SETUP", SofAddr, epnum(epaddr_out)))>>
    \o Rep(n[2], host_send_sof(3))
    \o <<Send(data_packet("DATA0", SofData)), Expect(handshake_packet("ACK"))>>
    \o Rep(n[3], host_send_sof(4))

\* xmit = cocotb.fork(send_setup_and_sof()), up to expect_setup
test_sof_is_ignored ==
    /\ MainCanRun
    /\ pc = "start"
    /\ test = "sof_is_ignored"
    /\ stage' = "setup"
    /\ Fork(send_setup_and_sof(sofs), Txn("setup", 0, "SETUP", SofData))
    /\ expected_data' = SofData
    /\ pc' = "expect_begin"
    /\ wait' = "run"
    /\ log' = Append(log, Ev("fork", Txn("setup", 0, "SETUP", SofData), NoPkt))
    /\ UNCHANGED <<inputVars, failure, phase, chunks, chunk_i, datax,
                   actual_data, loop_i, v, lineVars, devVars, fifo, epin,
                   gVars>>

\* set_response(epaddr_in, EndpointResponse.ACK): the write of usb_epin_epno
set_response ==
    /\ MainCanRun
    /\ pc = "set_response"
    /\ IF epdir(epaddr_in) = EndpointIN
       THEN epin' = << >> /\ wait' = "clk12"
       ELSE UNCHANGED epin /\ wait' = "run"
    /\ pc' = "transaction_status_in"
    /\ UNCHANGED <<inputVars, failure, phase, stage, chunks, chunk_i, datax,
                   expected_data, actual_data, loop_i, v, drvVars, lineVars,
                   devVars, fifo, log, gVars>>

-----------------------------------------------------------------------------
(* grouper applied on its own *)

Group ==
    /\ g_pc = "call"
    /\ g_out' = grouper(g_n, g_data, 0)
    /\ g_pc' = "done"
    /\ UNCHANGED <<inputVars, failure, phase, mainVars, drvVars, lineVars,
                   devVars, fifo, epin, log, g_n, g_data>>

-----------------------------------------------------------------------------
(* Initial states and specifications *)

\* the payload 0x00, 0x01, ... of n bytes, as in test_control_transfer_out
Payload(n) == [i \in 1..n |-> i - 1]
PayloadLens == {0} \cup {k * chunk_size - 4 : k \in 1..MaxChunks}
SetupPayload == <<128, 6, 0, 6, 0, 0, 10, 0>>
TestAddr == 20

GrouperOff ==
    /\ g_pc = "off"
    /\ g_n = 0
    /\ g_data = << >>
    /\ g_out = << >>

HarnessReset ==
    /\ failure = "none"
    /\ phase = 0
    /\ stage = "none"
    /\ chunks = << >>
    /\ chunk_i = 0
    /\ datax = "none"
    /\ expected_data = << >>
    /\ actual_data = << >>
    /\ loop_i = 0
    /\ v = 0
    /\ drv_seq = << >>
    /\ ex_i = 0
    /\ bit_times = 0
    /\ result = << >>
    /\ warned = FALSE
    /\ usb_d_p = 1
    /\ usb_d_n = 0
    /\ usb_tx_en = 0
    /\ dev_delay = Never
    /\ dev_seq = << >>
    /\ dev_hang = FALSE
    /\ fifo = NoFifo
    /\ epin = << >>
    /\ log = << >>

HarnessIdle ==
    /\ addr = TestAddr
    /\ setup_data = SetupPayload
    /\ sofs = <<0, 0, 0>>
    /\ HarnessReset

DrvIdle ==
    /\ drv_wait = "idle"
    /\ drv_pc = "idle"
    /\ drv_txn = NoTxn
    /\ drv_ops = << >>

\* a test coroutine about to call control_transfer_out or transaction_data_in
Init ==
    /\ test \in {"control_transfer_out", "transaction_data_in"}
    /\ descriptor_data \in {Payload(n) : n \in PayloadLens}
    /\ pc = "start"
    /\ wait = "run"
    /\ HarnessIdle
    /\ DrvIdle
    /\ GrouperOff

Next ==
    \/ Tick
    \/ host_send_packet \/ host_send_symbol
    \/ host_expect_packet \/ host_expect_wait \/ host_expect_started
    \/ host_expect_record \/ host_done
    \/ expect_begin \/ expect_prime_poll \/ expect_prime_edge
    \/ expect_read_status \/ expect_read_data \/ expect_write_ctrl
    \/ expect_read_edge \/ expect_check
    \/ control_transfer_out \/ join \/ transaction_data_out \/ data_out_armed
    \/ data_out_loop \/ data_out_fork \/ next_chunk \/ transaction_status_in
    \/ transaction_data_in \/ data_in_loop \/ send_data \/ send_data_byte
    \/ send_data_arm

Spec == Init /\ [][Next]_vars

\* a coroutine that calls host_expect_ack on its own
InitObserve ==
    /\ test = "observe"
    /\ descriptor_data = << >>
    /\ pc = "done"
    /\ wait = "done"
    /\ HarnessIdle
    /\ drv_wait = "run"
    /\ drv_pc = "begin"
    /\ drv_txn = Txn("observe", 0, "none", << >>)
    /\ drv_ops = <<Expect(handshake_packet("ACK"))>>
    /\ GrouperOff

NextObserve ==
    \/ Tick
    \/ host_expect_packet \/ host_expect_wait \/ host_expect_started
    \/ host_expect_record \/ host_done

SpecObserve == InitObserve /\ [][NextObserve]_vars

\* a coroutine that calls _host_send_packet on its own, once or twice, with
\* whatever wrap_packet may return
DriveSymbols == {"J", "K", "_"}
InitDrive ==
    /\ test = "drive"
    /\ descriptor_data = << >>
    /\ pc = "done"
    /\ wait = "done"
    /\ HarnessIdle
    /\ drv_wait = "run"
    /\ drv_pc = "begin"
    /\ drv_txn = Txn("drive", 0, "none", << >>)
    /\ \E s \in UNION {[1..k -> DriveSymbols] : k \in 1..MaxLen} :
          drv_ops \in {<<Send(raw_packet(s))>>,
                       <<Send(raw_packet(s)), Send(raw_packet(<<"J", "K">>))>>}
    /\ GrouperOff

NextDrive ==
    \/ Tick
    \/ host_send_packet \/ host_send_symbol \/ host_done

SpecDrive == InitDrive /\ [][NextDrive]_vars

\* test_sof_is_ignored about to fork send_setup_and_sof
InitSof ==
    /\ test = "sof_is_ignored"
    /\ addr = SofAddr
    /\ setup_data = SofData
    /\ descriptor_data = << >>
    /\ sofs \in {<<a, b, c>> : a \in 0..MaxSof, b \in 0..MaxSof, c \in 0..1}
    /\ pc = "start"
    /\ wait = "run"
    /\ HarnessReset
    /\ DrvIdle
    /\ GrouperOff

NextSof ==
    \/ Tick
    \/ host_send_packet \/ host_send_symbol
    \/ host_expect_packet \/ host_expect_wait \/ host_expect_started
    \/ host_expect_record \/ host_done
    \/ expect_begin \/ expect_prime_poll \/ expect_prime_edge
    \/ expect_read_status \/ expect_read_data \/ expect_write_ctrl
    \/ expect_read_edge \/ expect_check
    \/ test_sof_is_ignored \/ join \/ set_response \/ transaction_status_in

SpecSof == InitSof /\ [][NextSof]_vars

\* a coroutine that calls expect_setup or expect_data on its own
test_poll ==
    /\ MainCanRun
    /\ test = "poll"
    /\ pc = "start"
    /\ \E st \in {"setup", "data"} : stage' = st
    /\ expected_data' = descriptor_data
    /\ pc' = "expect_begin"
    /\ wait' = "run"
    /\ UNCHANGED <<inputVars, failure, phase, chunks, chunk_i, datax,
                   actual_data, loop_i, v, drvVars, lineVars, devVars, fifo,
                   epin, log, gVars>>

\* the device sets or clears bit 0 of the status register as it likes
status_register ==
    /\ Running
    /\ test = "poll"
    /\ pc \notin {"start", "join"}
    /\ fifo' \in {NoFifo, [reg |-> Reg, bytes |-> <<0>>]}
    /\ fifo' # fifo
    /\ UNCHANGED <<inputVars, failure, phase, mainVars, drvVars, lineVars,
                   devVars, epin, log, gVars>>

InitPoll ==
    /\ test = "poll"
    /\ descriptor_data = << >>
    /\ pc = "start"
    /\ wait = "run"
    /\ HarnessIdle
    /\ DrvIdle
    /\ GrouperOff

\* the steps of the polling coroutine
PollStep ==
    \/ test_poll
    \/ expect_begin \/ expect_prime_poll \/ expect_prime_edge
    \/ expect_read_status \/ expect_read_data \/ expect_write_ctrl
    \/ expect_read_edge \/ expect_check

NextPoll == Tick \/ PollStep \/ status_register

\* the simulator keeps the clocks running and resumes a coroutine whose
\* trigger has fired
SpecPoll ==
    InitPoll /\ [][NextPoll]_vars /\ WF_vars(Tick) /\ WF_vars(PollStep)

GBytes == {0, 7}
InitGrouper ==
    /\ test = "grouper"
    /\ descriptor_data = << >>
    /\ pc = "done"
    /\ wait = "done"
    /\ HarnessIdle
    /\ DrvIdle
    /\ g_pc = "call"
    /\ g_n \in (1..MaxChunk) \cup {chunk_size}
    /\ g_data \in UNION {[1..k -> GBytes] : k \in 0..MaxLen} \cup {Payload(12)}
    /\ g_out = << >>

NextGrouper == Group

SpecGrouper == InitGrouper /\ [][NextGrouper]_vars

-----------------------------------------------------------------------------
(* Properties *)

Rank(st) ==
    CASE st = "setup" -> 1 [] st = "data" -> 2 [] st = "status" -> 3
      [] OTHER -> 0

\* the positions of the record that hold event e of stage st
At(e, st) == {i \in DOMAIN log : log[i].ev = e /\ log[i].stage = st}
\* ... and of chunk k
AtChunk(e, st, k) == {i \in At(e, st) : log[i].chunk = k}

NChunks == (Len(descriptor_data) + chunk_size - 1) \div chunk_size

\* C1: control_transfer_out runs Setup, Data, Status, Done in this order:
\* nothing of a later stage is recorded before something of an earlier one;
\* a Data-stage packet is driven only after expect_setup has returned and
\* the Setup host_send was joined when finished; the Status-stage token is
\* driven only after every chunk of the payload was joined; the transfer is
\* done only after the Status transaction was joined.
C1_StageOrder ==
    test = "control_transfer_out" =>
      /\ \A i \in 1..(Len(log) - 1) :
            Rank(log[i].stage) <= Rank(log[i + 1].stage)
      /\ \A j \in At("pkt", "data") :
            /\ \E i \in At("expected", "setup") : i < j
            /\ \E i \in At("return", "setup") : i < j /\ log[i].drv = "done"
      /\ \A j \in At("pkt", "status") :
            /\ \A k \in 0..(NChunks - 1) :
                  \E i \in AtChunk("return", "data", k) :
                      i < j /\ log[i].drv = "done"
            /\ \E i \in At("return", "setup") : i < j
      /\ stage = "done" =>
            /\ log[Len(log)].ev = "return"
            /\ log[Len(log)].stage = "status"
            /\ log[Len(log)].drv = "done"
            /\ At("pkt", "data") # {} \/ NChunks = 0

\* C1 witness: a transfer with a two-chunk data stage is done
C1_Witness ==
    /\ test = "control_transfer_out"
    /\ stage = "done"
    /\ NChunks = 2
    /\ Cardinality(At("return", "data")) = 2

\* C2: once a step has failed nothing more is driven, matched, forked or
\* returned, nothing is attempted twice, and the transfer is never done.
C2_FailureAborts ==
    /\ [][failure' # "none" =>
            /\ log' = log
            /\ stage' # "done"
            /\ (failure # "none" =>
                  /\ failure' = failure
                  /\ <<pc, drv_pc, drv_ops, drv_seq, chunks, chunk_i>>' =
                     <<pc, drv_pc, drv_ops, drv_seq, chunks, chunk_i>>
                  /\ <<usb_d_p, usb_d_n, fifo, epin, actual_data, loop_i, ex_i>>' =
                     <<usb_d_p, usb_d_n, fifo, epin, actual_data, loop_i, ex_i>>)]_vars
    /\ [](\A i, j \in DOMAIN log :
            (/\ i < j
             /\ log[i].ev \in {"fork", "pkt"}
             /\ log[i].ev = log[j].ev
             /\ log[i].stage = log[j].stage
             /\ log[i].chunk = log[j].chunk)
            => log[i].pkt # log[j].pkt)

\* C2 witness: the forked host_send failed in the first chunk of a data
\* stage that has more chunks to send
C2_Witness ==
    /\ test = "control_transfer_out"
    /\ failure = "UnexpectedPacket"
    /\ stage = "data"
    /\ chunk_i = 0
    /\ Len(chunks) >= 2

\* C3: whenever xmit.join() / recv.join() lets a transaction return, the
\* forked host_send / host_recv of that transaction has finished.
C3_JoinedBeforeReturn ==
    \A j \in DOMAIN log :
        log[j].ev = "return" =>
          /\ log[j].drv = "done"
          /\ \E i \in AtChunk("drv_done", log[j].stage, log[j].chunk) : i < j

\* C3 witness: in transaction_data_in the caller had armed the endpoint and
\* reached recv.join() before the forked host_recv finished; the transaction
\* returned after it
C3_Witness ==
    /\ \E i \in AtChunk("arm", "data", 1) :
       \E j \in AtChunk("drv_done", "data", 1) :
       \E k \in AtChunk("return", "data", 1) : i < j /\ j < k
    /\ test = "transaction_data_in"

\* C4: chunks are sequential: whatever is forked or driven for chunk k + 1
\* comes after the driver of chunk k finished and after the register side
\* of chunk k (expect_data, send_data) and the join returned; no fork
\* happens while an earlier forked coroutine is unfinished.
C4_ChunksSequential ==
    /\ \A j \in DOMAIN log :
          (log[j].stage = "data" /\ log[j].chunk > 0
           /\ log[j].ev \in {"fork", "pkt"}) =>
            /\ \E i \in AtChunk("drv_done", "data", log[j].chunk - 1) : i < j
            /\ \E i \in AtChunk("return", "data", log[j].chunk - 1) : i < j
            /\ \E i \in AtChunk("expected", "data", log[j].chunk - 1)
                        \cup AtChunk("arm", "data", log[j].chunk - 1) : i < j
    /\ \A j \in DOMAIN log :
          log[j].ev = "fork" =>
            Cardinality({i \in 1..(j - 1) : log[i].ev = "fork"})
            = Cardinality({i \in 1..(j - 1) : log[i].ev = "drv_done"})

\* C4 witness: the token of the third chunk is on the wire
C4_Witness ==
    /\ AtChunk("pkt", "data", 2) # {}
    /\ drv_wait = "clk48"
    /\ drv_txn.chunk = 2

ParityPid(k) == IF k % 2 = 0 THEN "DATA0" ELSE "DATA1"

\* C5: in the data stage the chunk with index i is sent (data out) or
\* expected (data in) with DATA0 when i is even and DATA1 when i is odd.
C5_ToggleAlternation ==
    /\ \A k \in DOMAIN drv_ops :
          (drv_txn.stage = "data" /\ drv_ops[k].pkt.kind = "data") =>
            drv_ops[k].pkt.pid = ParityPid(drv_txn.chunk)
    /\ \A j \in DOMAIN log :
          (log[j].stage = "data" /\ log[j].pkt.kind = "data") =>
            log[j].pkt.pid = ParityPid(log[j].chunk)
    /\ (stage = "data" /\ pc \notin {"w_epin_epno", "next_chunk"}) =>
          (datax = ParityPid(chunk_i) /\ chunk_i + Len(chunks) = NChunks)

\* C5 witness: three chunks went out with DATA0, DATA1, DATA0
C5_Witness ==
    /\ \E i \in AtChunk("pkt", "data", 0) : log[i].pkt.pid = "DATA0"
    /\ \E i \in AtChunk("pkt", "data", 1) : log[i].pkt.pid = "DATA1"
    /\ \E i \in AtChunk("pkt", "data", 2) : log[i].pkt.pid = "DATA0"

\* the chunks laid end to end
Flat(chs, n) ==
    [i \in 1..(Len(chs) * n) |-> chs[((i - 1) \div n) + 1][((i - 1) % n) + 1]]

Ceil(a, b) == (a + b - 1) \div b

\* C6: grouper splits L bytes into ceil(L / c) chunks of c bytes each, the
\* payload in order followed by zeros in the last chunk only; 12 bytes with
\* c = 8 give two chunks, the second being 4 bytes and 4 zeros.
C6_GrouperPadding ==
    g_pc = "done" =>
      /\ Len(g_out) = Ceil(Len(g_data), g_n)
      /\ \A k \in DOMAIN g_out : Len(g_out[k]) = g_n
      /\ Flat(g_out, g_n)
         = g_data \o Pad(Ceil(Len(g_data), g_n) * g_n - Len(g_data), 0)
      /\ (g_data = Payload(12) /\ g_n = chunk_size) =>
            g_out = <<Payload(8), <<8, 9, 10, 11, 0, 0, 0, 0>>>>

\* C6 witness: the 12-byte payload was split with chunk size 8
C6_Witness ==
    /\ g_pc = "done"
    /\ g_data = Payload(12)
    /\ g_n = chunk_size
    /\ Len(g_out) = 2

\* the data packets the host has driven in the Setup and Data stages
DataPkts ==
    {i \in DOMAIN log :
        /\ log[i].ev = "pkt"
        /\ log[i].pkt.kind = "data"
        /\ log[i].stage \in {"setup", "data"}}

\* C7: from the Setup data packet through the last Data-stage chunk, each
\* data packet of a control transfer carries the other PID than the data
\* packet before it.
C7_ToggleContinuesFromSetup ==
    test = "control_transfer_out" =>
      \A i \in DataPkts : \A j \in DataPkts :
          (i < j /\ \A k \in DataPkts : ~(i < k /\ k < j)) =>
            log[i].pkt.pid # log[j].pkt.pid

\* the packets the host has driven in the Status stage
StatusPkts == {i \in At("pkt", "status") : log[i].pkt.kind # "handshake"}

\* C8: the Status stage drives one IN token to endpoint 0 of the transfer's
\* address and then one DATA1 packet without payload, nothing else, whatever
\* the data stage left in datax.
C8_StatusStage ==
    test = "control_transfer_out" =>
      /\ \A i \in StatusPkts :
            \/ log[i].pkt = token_packet("IN", addr, 0)
            \/ log[i].pkt = data_packet("DATA1", << >>)
      /\ \A i \in StatusPkts : \A j \in StatusPkts :
            i < j => (log[i].pkt.kind = "token" /\ log[j].pkt.kind = "data")
      /\ \A i \in At("pkt", "status") : log[i].pkt.kind # "handshake"
      /\ Cardinality(At("fork", "status")) <= 1
      /\ stage = "done" => Cardinality(StatusPkts) = 2

\* C8 witness: the transfer is done after two data chunks, which left datax
\* at DATA0
C8_Witness ==
    /\ test = "control_transfer_out"
    /\ stage = "done"
    /\ datax = "DATA0"
    /\ NChunks = 2
    /\ Cardinality(StatusPkts) = 2

\* C9: a packet that starts after w ticks is taken without warning when
\* w <= 30, with a warning when 30 < w <= 50, and is refused with a timeout
\* failure, nothing recorded and nothing compared, when w > 50.
C9_TurnaroundClasses ==
    /\ drv_pc \in {"record", "done"} =>
          (bit_times <= 50 /\ (warned <=> bit_times > 30))
    /\ failure = "TurnaroundTimeout" =>
          (bit_times > 50 /\ result = << >> /\ ~warned /\ drv_pc = "started")
    /\ (bit_times > 50 /\ drv_pc \notin {"wait", "begin"}) =>
          (failure \in {"TurnaroundTimeout", "NoTransmission"} \/ drv_wait = "run")
    /\ (drv_pc = "begin" /\ drv_wait = "run") \/ bit_times + (IF dev_delay = Never THEN 0 ELSE dev_delay) <= WaitBound

\* C9 witness: a packet that started after 50 ticks was matched, with a
\* warning
C9_Witness ==
    /\ drv_pc = "done"
    /\ bit_times = 50
    /\ warned
    /\ failure = "none"
    /\ \E i \in DOMAIN log : log[i].ev = "matched"

\* C10: the wait for usb_tx_en lasts at most 100 ticks and ends at the first
\* poll that reads it asserted; when it is still deasserted after the 100
\* ticks the expectation fails with "No packet started" and nothing is
\* recorded or compared.
C10_WaitBounded ==
    /\ bit_times <= WaitBound
    /\ drv_pc \in {"wait", "started"} => (ex_i <= WaitBound /\ bit_times = ex_i)
    /\ (drv_pc = "wait" /\ drv_wait = "clk48") =>
          (usb_tx_en = 0 /\ ex_i < WaitBound /\ bit_times = ex_i)
    /\ failure = "NoTransmission" =>
          /\ bit_times = WaitBound
          /\ usb_tx_en = 0
          /\ result = << >>
          /\ drv_pc = "started"
          /\ \A i \in DOMAIN log : log[i].ev # "matched"
    /\ (dev_delay = Never /\ drv_wait \notin {"run", "clk48", "ready"}) =>
          failure = "NoTransmission"

\* C10 witness: usb_tx_en was never asserted and the expectation has failed
C10_Witness ==
    /\ failure = "NoTransmission"
    /\ dev_delay = Never
    /\ bit_times = WaitBound

\* the samples recorded so far hold an SE1
Se1Recorded == \E i \in DOMAIN result : result[i] = "1"

ReadPayload == SubSeq(actual_data, 1, Len(actual_data) - 2)
ReadCrc == SubSeq(actual_data, Len(actual_data) - 1, Len(actual_data))

\* C12: expect_setup / expect_data fail as short whenever they collected
\* fewer than 2 bytes, the FIFO that was never filled included, and then
\* compare nothing; with 2 bytes or more the payload is compared first and
\* the CRC only when the payload was the expected one; they return only
\* when both were as expected.
C12_ShortFrame ==
    /\ wait = "dead" =>
          /\ pc = "check"
          /\ IF Len(actual_data) < 2
             THEN failure = "ShortFrame"
             ELSE IF ReadPayload # expected_data
             THEN failure = "PayloadMismatch"
             ELSE failure = "CrcMismatch" /\ ReadCrc # crc16(expected_data)
    /\ (pc = "join" /\ stage \in {"setup", "data"}
        /\ test = "control_transfer_out") =>
          /\ Len(actual_data) >= 2
          /\ ReadPayload = expected_data
          /\ ReadCrc = crc16(expected_data)
    /\ (failure = "none" /\ pc = "check") => wait = "run"

\* C12 witness: the flag was never set, nothing was collected and expect_data
\* failed as short
C12_Witness ==
    /\ failure = "ShortFrame"
    /\ stage = "data"
    /\ actual_data = << >>
    /\ fifo = NoFifo

\* an entry of the record for a packet other than SOF, driven or matched
NonSof(e) == e.ev \in {"pkt", "matched"} /\ e.pkt.kind # "sof"

\* the packets other than SOF, in the order they were driven or matched
NonSofPackets ==
    [i \in DOMAIN SelectSeq(log, NonSof) |->
        <<SelectSeq(log, NonSof)[i].ev, SelectSeq(log, NonSof)[i].pkt>>]

\* what the SETUP transaction and the Status transaction drive and match
\* without any SOF
PlainPackets ==
    <<<<"pkt", token_packet("SETUP", SofAddr, 0)>>,
      <<"pkt", data_packet("DATA0", SofData)>>,
      <<"matched", handshake_packet("ACK")>>,
      <<"pkt", token_packet("IN", SofAddr, 0)>>,
      <<"pkt", data_packet("DATA1", << >>)>>,
      <<"matched", handshake_packet("ACK")>>>>

\* the forked coroutine takes a step of a host_send_sof
SofStep ==
    /\ drv_ops # << >>
    /\ Head(drv_ops).pkt.kind = "sof"
    /\ <<drv_seq, drv_ops, drv_pc>>' # <<drv_seq, drv_ops, drv_pc>>

\* C13 as stated: with a device that ignores SOF and answers every packet,
\* the test ends as it does without SOF packets, however many are sent.
C13_SofNeverChangesOutcome == failure = "none"

\* C13: SOF packets leave the order and content of the other packets, the
\* bytes collected and the Status PID as they are, and a host_send_sof
\* changes nothing but the lines and the position of the forked coroutine;
\* the outcome is the same with up to one SOF at each place, and SOF packets
\* can change it only by using up the 128 priming polls of expect_setup
\* before the data packet is out, which then fails as short.
C13_SofTransparent ==
    /\ [](/\ Len(NonSofPackets) <= Len(PlainPackets)
          /\ NonSofPackets = SubSeq(PlainPackets, 1, Len(NonSofPackets))
          /\ (sofs[1] <= 1 /\ sofs[2] <= 1) => failure = "none"
          /\ failure # "none" =>
                /\ failure = "ShortFrame"
                /\ actual_data = << >>
                /\ fifo = NoFifo
                /\ stage = "setup"
                /\ \E k \in DOMAIN drv_ops : drv_ops[k].pkt.kind = "data"
          /\ stage = "done" =>
                /\ NonSofPackets = PlainPackets
                /\ actual_data = SofData \o crc16(SofData))
    /\ [][SofStep =>
            /\ drv_pc' \in {"begin", "drive"}
            /\ UNCHANGED <<mainVars, failure, phase, fifo, epin, devVars,
                           drv_txn, ex_i, bit_times, result, warned>>]_vars

\* C13 witness: test_sof_is_ignored as written, one SOF at each place, is
\* done
C13_Witness ==
    /\ test = "sof_is_ignored"
    /\ sofs = <<1, 1, 1>>
    /\ stage = "done"
    /\ Cardinality({i \in DOMAIN log : log[i].pkt.kind = "sof"}) = 3

\* C14: in transaction_setup and in every chunk of transaction_data_out no
\* clk48 edge passes between the fork and the caller's first read of the
\* status register: while the caller has not begun to poll, the forked
\* host_send is still at the first symbol of its token.
C14_ExpectationStartsWithDriver ==
    /\ [][phase' # phase => pc # "expect_begin"]_vars
    /\ [](pc = "expect_begin" =>
            /\ Len(drv_ops) = 3
            /\ drv_pc \in {"begin", "drive"}
            /\ drv_wait \in {"run", "clk48"}
            /\ drv_pc = "drive" =>
                  Len(drv_seq) = Len(wrap_packet(Head(drv_ops).pkt)) - 1
            /\ \A i \in DOMAIN log :
                  (log[i].stage = stage /\ log[i].chunk = chunk_i) =>
                    \/ log[i].ev = "fork"
                    \/ log[i].ev = "pkt" /\ log[i].pkt.kind = "token")

\* C14 witness: the caller's first status read of the second chunk is under
\* way and the forked host_send is still at the first symbol of the token
C14_Witness ==
    /\ stage = "data"
    /\ chunk_i = 1
    /\ pc = "prime_read"
    /\ wait = "clk12"
    /\ loop_i = 0
    /\ drv_pc = "drive"
    /\ drv_wait = "clk48"
    /\ Len(drv_ops) = 3
    /\ Len(drv_seq) = Len(wrap_packet(Head(drv_ops).pkt)) - 1

\* (D+, D-) of a symbol
Lines(sym) ==
    CASE sym = "J" -> <<1, 0>> [] sym = "K" -> <<0, 1>> [] sym = "_" -> <<0, 0>>

\* the sequence _host_send_packet is driving and how much of it is out
Driving == Head(drv_ops).pkt.data
Driven == Len(Driving) - Len(drv_seq)

\* C15: a sequence that does not end in J fails before a line changes or a
\* tick passes for it; otherwise each symbol is put on the lines as
\* J = (1,0), K = (0,1), SE0 = (0,0) and held for exactly one clk48 edge, and
\* the lines are at J when the drive is complete.
C15_DriveEndsInJ ==
    /\ [][failure' = "NotJ" =>
            /\ UNCHANGED <<usb_d_p, usb_d_n, phase, log, drv_seq>>
            /\ Driving[Len(Driving)] # "J"]_vars
    /\ [][phase' # phase =>
            (drv_wait = "clk48" /\ UNCHANGED <<usb_d_p, usb_d_n, drv_seq>>)]_vars
    /\ [][<<usb_d_p, usb_d_n, drv_seq>>' # <<usb_d_p, usb_d_n, drv_seq>> =>
            /\ drv_wait' = "clk48"
            /\ drv_pc' = "drive"
            /\ drv_ops' = drv_ops
            /\ Len(drv_seq') = (IF drv_pc = "begin" THEN Len(Driving)
                                ELSE Len(drv_seq)) - 1
            /\ Driving[Len(Driving)] = "J"
            /\ <<usb_d_p', usb_d_n'>> = Lines(Driving[Len(Driving) - Len(drv_seq')])]_vars
    /\ [](/\ drv_pc = "drive" =>
                /\ <<usb_d_p, usb_d_n>> = Lines(Driving[Driven])
                /\ drv_seq = SubSeq(Driving, Driven + 1, Len(Driving))
          /\ (drv_pc = "begin" /\ log # << >>) =>
                <<usb_d_p, usb_d_n>> = <<1, 0>>
          /\ (drv_pc = "done" /\ Len(log) = 2) =>
                /\ <<usb_d_p, usb_d_n>> = <<1, 0>>
                /\ phase = Len(log[1].pkt.data) % 4)

\* C15 witness: a first sequence K, SE0, SE0, J was driven to its end and a
\* second one, ending in K, was refused
C15_Witness ==
    /\ failure = "NotJ"
    /\ Len(log) = 1
    /\ log[1].pkt.data = <<"K", "_", "_", "J">>
    /\ phase = 0
    /\ <<usb_d_p, usb_d_n>> = <<1, 0>>

\* where the caller can be while a forked coroutine is active: in
\* expect_setup / expect_data, in send_data, or at the join
RegisterSide ==
    {"expect_begin", "prime_read", "prime_edge", "read_status", "read_data",
     "write_ctrl", "read_edge", "check", "join", "send_data", "w_epin_data",
     "w_epin_arm"}

\* C16: drives and observes never overlap: a coroutine is forked only when
\* the one forked before has finished, the host drives only while the device
\* does not transmit, the lines change only by a symbol of the forked
\* coroutine or by the transmitting device, and the caller, which is on the
\* register side as long as the forked coroutine is active, never changes
\* them.
C16_NoOverlap ==
    /\ [](/\ \A i \in DOMAIN log :
                log[i].ev = "fork" => log[i].drv \in {"idle", "done"}
          /\ drv_pc = "drive" => (usb_tx_en = 0 /\ dev_delay <= 0)
          /\ drv_wait \in {"run", "ready", "clk48"} => pc \in RegisterSide)
    /\ [][<<usb_d_p, usb_d_n>>' # <<usb_d_p, usb_d_n>> =>
            /\ UNCHANGED <<pc, actual_data, loop_i, epin>>
            /\ \/ /\ usb_tx_en' = 1 \/ usb_tx_en = 1
                  /\ drv_seq' = drv_seq
                  /\ drv_pc' # "drive"
               \/ drv_seq' # drv_seq /\ phase' = phase /\ usb_tx_en = 0]_vars
    /\ [][pc' # pc => UNCHANGED <<usb_d_p, usb_d_n, usb_tx_en, phase>>]_vars

\* C16 witness: the forked host_send of the second chunk records the
\* device's answer while the caller reads the FIFO
C16_Witness ==
    /\ stage = "data"
    /\ chunk_i = 1
    /\ drv_pc = "record"
    /\ usb_tx_en = 1
    /\ Len(result) > Cycles
    /\ pc = "read_data"
    /\ actual_data # << >>

\* the chunk with index k of the payload
Chunk(k) == grouper(chunk_size, descriptor_data, 0)[k + 1]

\* the failures of host_expect_packet
ExpectFailures ==
    {"NoTransmission", "TurnaroundTimeout", "UnfinishedPacket",
     "UnexpectedPacket"}

\* C17: host_recv drives the IN token to its last symbol before it observes,
\* matches the data packet with the given PID and bytes, and only then
\* drives the ACK; when the expectation fails no ACK is driven.
C17_RecvOrder ==
    test = "transaction_data_in" =>
      /\ drv_pc \in {"wait", "started", "record"} =>
            /\ drv_seq = << >>
            /\ Len(drv_ops) = 2
            /\ Head(drv_ops) =
                  Expect(data_packet(ParityPid(drv_txn.chunk), Chunk(drv_txn.chunk)))
            /\ \E i \in AtChunk("pkt", "data", drv_txn.chunk) :
                  log[i].pkt = token_packet("IN", addr, 0)
            /\ \A i \in AtChunk("pkt", "data", drv_txn.chunk) :
                  log[i].pkt.kind = "token"
      /\ \A j \in DOMAIN log :
            (log[j].ev = "pkt" /\ log[j].pkt.kind = "handshake") =>
              /\ log[j].pkt = handshake_packet("ACK")
              /\ \E i \in AtChunk("matched", "data", log[j].chunk) :
                    /\ i < j
                    /\ log[i].pkt = data_packet(ParityPid(log[j].chunk),
                                                Chunk(log[j].chunk))
                    /\ \E t \in AtChunk("pkt", "data", log[j].chunk) :
                          t < i /\ log[t].pkt.kind = "token"
      /\ failure \in ExpectFailures =>
            /\ AtChunk("matched", "data", drv_txn.chunk) = {}
            /\ \A i \in AtChunk("pkt", "data", drv_txn.chunk) :
                  log[i].pkt.kind = "token"

\* C17 witness: the ACK of the second chunk is being driven
C17_Witness ==
    /\ test = "transaction_data_in"
    /\ drv_txn.chunk = 1
    /\ drv_pc = "drive"
    /\ Head(drv_ops).pkt = handshake_packet("ACK")
    /\ AtChunk("matched", "data", 1) # {}

\* C18: the register polling terminates whatever the status register
\* returns: at most 128 priming polls, stopped by the first poll with bit 0
\* set, then at most 48 (expect_setup) or 256 (expect_data) read iterations
\* and bytes, stopped by the first poll with bit 0 clear.
C18_PollingTerminates ==
    /\ [](/\ pc \in {"prime_read", "prime_edge"} =>
                loop_i < PrimeBound /\ actual_data = << >>
          /\ pc \in {"read_status", "read_data", "write_ctrl"} =>
                Len(actual_data) = loop_i
          /\ pc = "read_edge" => Len(actual_data) = loop_i + 1
          /\ stage = "setup" => Len(actual_data) <= SetupReadBound
          /\ stage = "data" => Len(actual_data) <= DataReadBound
          /\ pc \in {"read_status", "read_data", "write_ctrl", "read_edge"} =>
                loop_i < (IF stage = "setup" THEN SetupReadBound
                                             ELSE DataReadBound))
    /\ [][/\ (pc = "prime_read" /\ pc' # pc) =>
                pc' = IF Status(Reg) = 1 THEN "read_status" ELSE "prime_edge"
          /\ (pc = "prime_edge" /\ pc' = "prime_read") => loop_i' = loop_i + 1
          /\ (pc = "read_status" /\ pc' # pc) =>
                pc' = IF Status(Reg) = 1 THEN "read_data" ELSE "check"
          /\ (pc = "read_edge" /\ pc' = "read_status") => loop_i' = loop_i + 1
          /\ pc = "check" => pc' \in {"check", "join"}]_vars
    /\ <>(pc = "join" \/ failure # "none")

\* C18 witness: expect_setup left its read loop at the bound, after a
\* status register that never cleared its flag
C18_Witness ==
    /\ test = "poll"
    /\ stage = "setup"
    /\ pc = "check"
    /\ Len(actual_data) = SetupReadBound
    /\ Status(Reg) = 1

\* C19: once usb_tx_en is asserted the observation records one sample per
\* tick, at least 1 and at most 512, and stops after the first tick at which
\* usb_tx_en is no longer asserted; with usb_tx_en still asserted after the
\* 512th sample it fails with "Packet didn't finish" and compares nothing,
\* otherwise the record is compared with the expected packet.
C19_RecordLoop ==
    /\ [](/\ drv_pc = "record" =>
                /\ Len(result) = ex_i + 1
                /\ Len(result) >= 1
                /\ Len(result) <= RecordBound
          /\ failure = "UnfinishedPacket" =>
                usb_tx_en = 1 /\ Len(result) = RecordBound
          /\ failure = "UnexpectedPacket" =>
                /\ usb_tx_en = 0
                /\ Len(result) \in 1..RecordBound
                /\ pp_packet(wrap_packet(Head(drv_ops).pkt)) # pp_packet(result))
    /\ [][drv_pc = "record" =>
            /\ phase' # phase => (drv_wait = "clk48" /\ drv_wait' = "ready"
                                  /\ result' = result)
            /\ drv_wait' # drv_wait =>
                  \/ phase' # phase
                  \/ /\ usb_tx_en = 1
                     /\ Len(result) < RecordBound
                     /\ result' = Append(result, current)
                     /\ drv_pc' = "record"
                     /\ drv_wait' = "clk48"
                     /\ failure' = failure
                  \/ /\ usb_tx_en = 1
                     /\ Len(result) = RecordBound
                     /\ failure' = "UnfinishedPacket"
                     /\ result' = result
                     /\ log' = log
                  \/ /\ usb_tx_en # 1
                     /\ result' = result
                     /\ IF pp_packet(wrap_packet(Head(drv_ops).pkt))
                             = pp_packet(result)
                        THEN /\ failure' = failure
                             /\ drv_pc' = "begin"
                             /\ log' = Append(log, Ev("matched", drv_txn,
                                                      Head(drv_ops).pkt))
                        ELSE failure' = "UnexpectedPacket"]_vars

\* C19 witness: usb_tx_en was still asserted after the 512th sample
C19_Witness ==
    /\ test = "observe"
    /\ failure = "UnfinishedPacket"
    /\ Len(result) = RecordBound
    /\ usb_tx_en = 1

\* C20: in transaction_data_in the bytes written to usb_epin_data before
\* usb_epin_epno is armed are, for every chunk, the bytes of the chunk the
\* forked host_recv expects in that transaction's data packet.
C20_QueuedIsExpectedChunk ==
    test = "transaction_data_in" =>
        \A i \in DOMAIN log :
            log[i].ev = "arm" => log[i].pkt.data = Chunk(log[i].chunk)

====
